---- MODULE Spec2Model ----
(***************************************************************************)
(* Model of coscale.py, the Salt state module that sends an event to the   *)
(* CoScale API: event() logs in, creates the event and pushes its data,    *)
(* re-logging in when the server answers 401.  Each HTTP request of one    *)
(* event() invocation is one step of the model; the server's answer is a   *)
(* nondeterministic choice.                                                *)
(***************************************************************************)
EXTENDS Integers, Sequences, FiniteSets, TLC

(* ---------------- bounds of the model ---------------- *)
NumTokens == 2        \* distinct session tokens the server may hand out
NumIds == 2           \* distinct event ids the server may assign
NumTexts == 2         \* distinct plain-text (non JSON) response bodies
NumNames == 2         \* distinct event_name arguments
MaxTimestamp == 1     \* timestamp arguments range over 0..MaxTimestamp
MaxInvocations == 2   \* event() invocations in one behaviour

(* ---------------- values ---------------- *)
\* Python's None and an optional value: <<>> is None, <<v>> is the value v.
None == <<>>
Some(v) == <<v>>
Get(o) == o[1]

\* Strings are records [fmt, val]: the fixed text and the value put into it.
TokenJson(t) == [fmt |-> "{token: _}", val |-> t]
IdJson(i) == [fmt |-> "{id: _}", val |-> i]
PlainText(b) == [fmt |-> "text _", val |-> b]
EmptyStr == [fmt |-> "", val |-> 0]
NoneStr == [fmt |-> "None", val |-> 0]
IntStr(i) == [fmt |-> "int _", val |-> i]
SentEvent(name) == [fmt |-> "Sent event: _", val |-> name]
NoneTypeMsg == [fmt |-> "'NoneType' object has no attribute 'status_code'", val |-> 0]

Tokens == 1..NumTokens
Ids == 1..NumIds
Names == 1..NumNames
Bodies == {TokenJson(t) : t \in Tokens} \cup {IdJson(i) : i \in Ids}
              \cup {PlainText(b) : b \in 1..NumTexts}

\* HTTP status codes the server answers with: the three the code tests for
\* and one other error status.
StatusCodes == {200, 401, 409, 500}

\* What requests.post gives: a response object, or no response at all
\* (timeout after 1 second, connection failure), which raises.
\* An error answer (401, 500) carries a plain-text message; a 200 or 409
\* answer carries any body, JSON or not.
Responses == {r \in [arrived : {TRUE}, status_code : StatusCodes, text : Bodies] :
                 r.status_code \in {401, 500} => r.text.fmt = "text _"}
NoResponse == [arrived |-> FALSE, status_code |-> 0, text |-> EmptyStr]
Outcomes == Responses \cup {NoResponse}

\* Result of a call: exc = "none" and a value, or the exception raised.
Return(v) == [exc |-> "none", msg |-> EmptyStr, value |-> v]
Raise(e, m) == [exc |-> e, msg |-> m, value |-> None]

\* str(event_id) of line 141
str(x) == IF x = None THEN NoneStr ELSE IntStr(Get(x))

\* json.loads followed by a subscript with key: ValueError on a body that
\* is not JSON, KeyError on a JSON object without the key.
json_get(text, key) ==
    IF text.fmt = "{token: _}"
      THEN IF key = "token" THEN Return(text.val) ELSE Raise("KeyError", EmptyStr)
    ELSE IF text.fmt = "{id: _}"
      THEN IF key = "id" THEN Return(text.val) ELSE Raise("KeyError", EmptyStr)
    ELSE Raise("ValueError", EmptyStr)

(* ---------------- the three request functions ---------------- *)
\* line 36 accepting 409 as line 61 does
LoginAccepted_Or409(status_code) == status_code = 409 \/ status_code = 200

\* line 36: the login answer the code accepts
LoginAccepted(status_code) == status_code = 200

\* _login without the status test of lines 36-37
_login_Unchecked(req) ==
    IF ~req.arrived THEN Raise("RequestException", EmptyStr)
    ELSE json_get(req.text, "token")

\* _login, lines 34-39
_login(req) ==
    IF ~req.arrived THEN Raise("RequestException", EmptyStr)
    ELSE IF ~LoginAccepted(req.status_code) THEN Raise("AttributeError", req.text)
    ELSE json_get(req.text, "token")

\* line 61: the createEvent answers that carry an id
CreateSucceeded(status_code) == status_code = 409 \/ status_code = 200

\* _eventpush, lines 60-64: the pair (err, event_id)
_eventpush(req) ==
    IF ~req.arrived THEN Raise("RequestException", EmptyStr)
    ELSE IF CreateSucceeded(req.status_code)
      THEN LET response == json_get(req.text, "id")
           IN  IF response.exc # "none" THEN response
               ELSE Return(<<None, Some(response.value)>>)
    ELSE Return(<<Some(req), None>>)

\* line 88 testing for the wrong status
PushSucceeded_409(status_code) == status_code = 409

\* line 88: the pushEventData answer that counts as success
PushSucceeded(status_code) == status_code = 200

\* _eventdatapush, lines 87-90: err
_eventdatapush(req) ==
    IF ~req.arrived THEN Raise("RequestException", EmptyStr)
    ELSE IF ~PushSucceeded(req.status_code) THEN Return(Some(req))
    ELSE Return(None)

(* ---------------- event() ---------------- *)
VARIABLES pc,           \* position in event(): the request about to be sent
          args,         \* arguments of the invocation
          baseurl,      \* line 130
          token, err, event_id, url, ret,    \* locals of event()
          raised,       \* exception that left event(), "none" otherwise
          log,          \* requests sent in this invocation, with the answers
          invocations   \* event() invocations started

vars == <<pc, args, baseurl, token, err, event_id, url, ret, raised, log, invocations>>

\* values of ret['comment']: a string, or the caught exception object
Str(s) == [type |-> "str", text |-> s]
ExcObj(m) == [type |-> "AttributeError", text |-> m]

\* default of the timestamp parameter, line 92
DefaultTimestamp == 0

ACCESSTOKEN == "42c59aad"
APPID == "00006e0e"
BASEURL == "https://api.coscale.com/"
MESSAGE == "Updating to version 2.2"

NoArgs == [baseurl |-> BASEURL, accesstoken |-> ACCESSTOKEN, appid |-> APPID,
           event_name |-> 1, event_message |-> MESSAGE,
           event_timestamp |-> None, timestamp |-> DefaultTimestamp]

Init ==
    /\ pc = "idle"
    /\ args = NoArgs
    /\ baseurl = <<>>
    /\ token = None /\ err = None /\ event_id = None /\ url = None
    /\ ret = [name |-> 1, changes |-> {}, result |-> FALSE, comment |-> Str(EmptyStr)]
    /\ raised = "none"
    /\ log = <<>>
    /\ invocations = 0

\* one request and its answer
Sent(call, u, tok, data, req) ==
    [call |-> call, url |-> u, HTTPAuthorization |-> tok, data |-> data, resp |-> req]

LoginRequest(req) ==
    Sent("_login", baseurl \o <<"login/">>, None, [accessToken |-> args.accesstoken], req)

EventRequest(tok, req) ==
    Sent("_eventpush", baseurl \o <<"events/">>, tok,
         [name |-> args.event_name, description |-> "", type |-> "", source |-> "SaltStack"],
         req)

\* lines 82-85 sending the default instead of the timestamp argument
DataRequest_DefaultTimestamp(tok, u, req) ==
    Sent("_eventdatapush", u, tok,
         [message |-> args.event_message, timestamp |-> DefaultTimestamp, subject |-> "a"],
         req)

DataRequest(tok, u, req) ==
    Sent("_eventdatapush", u, tok,
         [message |-> args.event_message, timestamp |-> args.timestamp, subject |-> "a"],
         req)

\* lines 125-130: a call of event(); the timestamp may be omitted
Invoke(name, event_timestamp) ==
    /\ pc \in {"idle", "returned", "raised"}
    /\ invocations < MaxInvocations
    /\ invocations' = invocations + 1
    /\ args' = [baseurl |-> BASEURL, accesstoken |-> ACCESSTOKEN, appid |-> APPID,
                event_name |-> name, event_message |-> MESSAGE,
                event_timestamp |-> event_timestamp,
                timestamp |-> IF event_timestamp = None THEN DefaultTimestamp
                              ELSE Get(event_timestamp)]
    /\ ret' = [name |-> name, changes |-> {}, result |-> FALSE, comment |-> Str(EmptyStr)]
    /\ baseurl' = <<BASEURL, "api/v1/app/", APPID, "/">>
    /\ token' = None /\ err' = None /\ event_id' = None /\ url' = None
    /\ raised' = "none"
    /\ log' = <<>>
    /\ pc' = "login"

\* event() without the except clause of lines 153-155
Except_Propagate(res) ==
    /\ pc' = "raised"
    /\ raised' = res.exc
    /\ ret' = ret

\* lines 153-155: an AttributeError becomes the comment, anything else
\* leaves event()
Except(res) ==
    IF res.exc = "AttributeError"
      THEN /\ ret' = [ret EXCEPT !.comment = ExcObj(res.msg)]
           /\ pc' = "returned"
           /\ raised' = "none"
      ELSE /\ pc' = "raised"
           /\ raised' = res.exc
           /\ ret' = ret

\* lines 139-140 and 148-149 reading the text of the answer before the retry
ReturnFailure_Stale(e) ==
    /\ ret' = [ret EXCEPT !.comment = Str(IF err = None THEN Get(e).text
                                          ELSE Get(err).text)]
    /\ pc' = "returned"
    /\ raised' = "none"

\* lines 139-140 and 148-149
ReturnFailure(e) ==
    /\ ret' = [ret EXCEPT !.comment = Str(Get(e).text)]
    /\ pc' = "returned"
    /\ raised' = "none"

\* lines 135 and 144 retrying on every client or server error
SessionExpired_AnyError(e) == Get(e).status_code >= 400

\* lines 135 and 144
SessionExpired(e) == Get(e).status_code = 401

\* lines 138 and 147: err.status_code not in [401, None]; reading
\* status_code of None raises AttributeError
StatusNotRetried(e) ==
    IF e = None THEN Raise("AttributeError", NoneTypeMsg)
    ELSE Return(Some(Get(e).status_code) \notin {Some(401), None})

\* a login whose token is dropped when a token is already held (lines 136
\* and 145 without the assignment)
LoginStep_KeepToken(at, next) ==
    /\ pc = at
    /\ \E req \in Outcomes :
         LET res == _login(req)
         IN  /\ log' = Append(log, LoginRequest(req))
             /\ IF res.exc = "none"
                  THEN /\ token' = IF token = None THEN Some(res.value) ELSE token
                       /\ pc' = next
                       /\ UNCHANGED <<ret, raised>>
                  ELSE /\ Except(res)
                       /\ token' = token
    /\ UNCHANGED <<args, baseurl, err, event_id, url, invocations>>

\* a login of event(), lines 132, 136 and 145
LoginStep(at, next) ==
    /\ pc = at
    /\ \E req \in Outcomes :
         LET res == _login(req)
         IN  /\ log' = Append(log, LoginRequest(req))
             /\ IF res.exc = "none"
                  THEN /\ token' = Some(res.value)
                       /\ pc' = next
                       /\ UNCHANGED <<ret, raised>>
                  ELSE /\ Except(res)
                       /\ token' = token
    /\ UNCHANGED <<args, baseurl, err, event_id, url, invocations>>

\* line 132
Login == LoginStep("login", "eventpush")

\* line 141
DataUrl(id) == baseurl \o <<"events/", str(id), "/data/">>

\* lines 138-141 as the end of a retry loop: a 401 logs in and retries again
AfterCreate_Loop(e, id) ==
    LET check == StatusNotRetried(e)
    IN  IF check.exc # "none" THEN Except(check) /\ url' = url
        ELSE IF check.value THEN ReturnFailure(e) /\ url' = url
        ELSE /\ pc' = "relogin_create"
             /\ UNCHANGED <<ret, raised, url>>

\* lines 138-141, reached with the err and event_id of the last _eventpush
AfterCreate(e, id) ==
    LET check == StatusNotRetried(e)
    IN  IF check.exc # "none" THEN Except(check) /\ url' = url
        ELSE IF check.value THEN ReturnFailure(e) /\ url' = url
        ELSE /\ url' = DataUrl(id)
             /\ pc' = "eventdatapush"
             /\ UNCHANGED <<ret, raised>>

\* lines 133-135 and 138-141: the first createEvent request
EventPush ==
    /\ pc = "eventpush"
    /\ \E req \in Outcomes :
         LET res == _eventpush(req)
         IN  /\ log' = Append(log, EventRequest(token, req))
             /\ IF res.exc # "none"
                  THEN Except(res) /\ UNCHANGED <<err, event_id, url>>
                  ELSE /\ err' = res.value[1]
                       /\ event_id' = res.value[2]
                       /\ IF res.value[1] = None
                            THEN /\ url' = DataUrl(res.value[2])
                                 /\ pc' = "eventdatapush"
                                 /\ UNCHANGED <<ret, raised>>
                          ELSE IF SessionExpired(res.value[1])
                            THEN /\ pc' = "relogin_create"
                                 /\ UNCHANGED <<ret, raised, url>>
                          ELSE AfterCreate(res.value[1], res.value[2])
    /\ UNCHANGED <<args, baseurl, token, invocations>>

\* line 136
ReLoginCreate == LoginStep("relogin_create", "eventpush_retry")

\* lines 137-141: the retried createEvent request
EventPushRetry ==
    /\ pc = "eventpush_retry"
    /\ \E req \in Outcomes :
         LET res == _eventpush(req)
         IN  /\ log' = Append(log, EventRequest(token, req))
             /\ IF res.exc # "none"
                  THEN Except(res) /\ UNCHANGED <<err, event_id, url>>
                  ELSE /\ err' = res.value[1]
                       /\ event_id' = res.value[2]
                       /\ AfterCreate(res.value[1], res.value[2])
    /\ UNCHANGED <<args, baseurl, token, invocations>>

\* lines 147-152 as the end of a retry loop: a 401 logs in and retries again
AfterPush_Loop(e) ==
    LET check == StatusNotRetried(e)
    IN  IF check.exc # "none" THEN Except(check)
        ELSE IF check.value THEN ReturnFailure(e)
        ELSE /\ pc' = "relogin_push"
             /\ UNCHANGED <<ret, raised>>

\* lines 147-152, reached with the err of the last _eventdatapush
AfterPush(e) ==
    LET check == StatusNotRetried(e)
    IN  IF check.exc # "none" THEN Except(check)
        ELSE IF check.value THEN ReturnFailure(e)
        ELSE /\ ret' = [ret EXCEPT !.result = TRUE,
                                   !.comment = Str(SentEvent(args.event_name))]
             /\ pc' = "returned"
             /\ raised' = "none"

\* lines 142-144 and 147-152: the first pushEventData request
EventDataPush ==
    /\ pc = "eventdatapush"
    /\ \E req \in Outcomes :
         LET res == _eventdatapush(req)
         IN  /\ log' = Append(log, DataRequest(token, url, req))
             /\ IF res.exc # "none"
                  THEN Except(res) /\ err' = err
                  ELSE /\ err' = res.value
                       /\ IF res.value = None
                            THEN /\ ret' = [ret EXCEPT !.result = TRUE,
                                              !.comment = Str(SentEvent(args.event_name))]
                                 /\ pc' = "returned"
                                 /\ raised' = "none"
                          ELSE IF SessionExpired(res.value)
                            THEN /\ pc' = "relogin_push"
                                 /\ UNCHANGED <<ret, raised>>
                          ELSE AfterPush(res.value)
    /\ UNCHANGED <<args, baseurl, token, event_id, url, invocations>>

\* line 145
ReLoginPush == LoginStep("relogin_push", "eventdatapush_retry")

\* lines 146-152: the retried pushEventData request
EventDataPushRetry ==
    /\ pc = "eventdatapush_retry"
    /\ \E req \in Outcomes :
         LET res == _eventdatapush(req)
         IN  /\ log' = Append(log, DataRequest(token, url, req))
             /\ IF res.exc # "none"
                  THEN Except(res) /\ err' = err
                  ELSE /\ err' = res.value
                       /\ AfterPush(res.value)
    /\ UNCHANGED <<args, baseurl, token, event_id, url, invocations>>

TimestampArgs == {None} \cup {Some(t) : t \in 0..MaxTimestamp}

Call == \E name \in Names, event_timestamp \in TimestampArgs : Invoke(name, event_timestamp)

Next ==
    \/ Call
    \/ Login
    \/ EventPush
    \/ ReLoginCreate
    \/ EventPushRetry
    \/ EventDataPush
    \/ ReLoginPush
    \/ EventDataPushRetry

Spec == Init /\ [][Next]_vars

\* event() is straight-line synchronous code and every requests.post ends
\* within its timeout of 1 second: a request that is due is made.
Request ==
    \/ Login
    \/ EventPush
    \/ ReLoginCreate
    \/ EventPushRetry
    \/ EventDataPush
    \/ ReLoginPush
    \/ EventDataPushRetry

FairSpec == Spec /\ WF_vars(Request)

TypeOK ==
    /\ pc \in {"idle", "login", "eventpush", "relogin_create", "eventpush_retry",
               "eventdatapush", "relogin_push", "eventdatapush_retry",
               "returned", "raised"}
    /\ invocations \in 0..MaxInvocations
    /\ ret.result \in BOOLEAN
    /\ Len(log) <= 7

(* ---------------- reading the request log ---------------- *)
Indices(call) == {i \in 1..Len(log) : log[i].call = call}
Calls(call) == Cardinality(Indices(call))
FirstOf(call) == CHOOSE i \in Indices(call) : \A j \in Indices(call) : i <= j
LastOf(call) == CHOOSE i \in Indices(call) : \A j \in Indices(call) : j <= i
Status(i) == log[i].resp.status_code
Answered(i) == log[i].resp.arrived

\* the answer is one the client can read: a token after a 200 login, an id
\* after a 200 or 409 createEvent
WellFormed(i) ==
    /\ Answered(i)
    /\ log[i].call = "_login" /\ Status(i) = 200 => log[i].resp.text.fmt = "{token: _}"
    /\ log[i].call = "_eventpush" /\ Status(i) \in {200, 409} => log[i].resp.text.fmt = "{id: _}"
AllWellFormed == \A i \in 1..Len(log) : WellFormed(i)

Returned == pc = "returned"
SentComment == Str(SentEvent(args.event_name))

\* the full sequence succeeded: login 200, last createEvent 200 or 409,
\* last pushEventData 200
FullSuccess ==
    /\ Indices("_login") # {} /\ Status(1) = 200
    /\ Indices("_eventpush") # {} /\ Status(LastOf("_eventpush")) \in {200, 409}
    /\ Indices("_eventdatapush") # {} /\ Status(LastOf("_eventdatapush")) = 200

(* ---------------- C1 ---------------- *)
\* C1: when event() has returned, result is true if and only if the login
\* returned 200, the last createEvent returned 200 or 409 and the last
\* pushEventData returned 200.
C1_ResultIffFullSuccess ==
    Returned /\ AllWellFormed => (ret.result <=> FullSuccess)

(* ---------------- C2 ---------------- *)
\* the log starts: login 200, createEvent 401, login 200, createEvent 200 with id
CreateRetrySucceeded ==
    /\ Len(log) >= 4
    /\ \A i \in 1..4 : WellFormed(i)
    /\ Status(1) = 200
    /\ log[2].call = "_eventpush" /\ Status(2) = 401
    /\ log[3].call = "_login" /\ Status(3) = 200
    /\ log[4].call = "_eventpush" /\ Status(4) = 200

\* C2: after createEvent 401, re-login 200 and createEvent 200 on the retry,
\* two logins and two createEvent calls have been made, pushEventData is
\* sent to the data URL of the retried response's id, and a 200 answer to it
\* ends event() with result true and comment "Sent event: <name>".
C2_CreateRetryProceeds ==
    CreateRetrySucceeded =>
        /\ Len(log) = 4 =>
             /\ pc = "eventdatapush"
             /\ url = DataUrl(Some(log[4].resp.text.val))
             /\ Calls("_login") = 2 /\ Calls("_eventpush") = 2
        /\ Len(log) >= 5 =>
             /\ log[5].call = "_eventdatapush"
             /\ log[5].url = DataUrl(Some(log[4].resp.text.val))
        /\ Len(log) = 5 /\ Answered(5) /\ Status(5) = 200 =>
             Returned /\ ret.result /\ ret.comment = SentComment

(* ---------------- C3 ---------------- *)
\* the log ends: pushEventData 401, login 200, pushEventData 200, after a
\* login and a createEvent that succeeded at once
PushRetrySucceeded ==
    /\ Len(log) = 5
    /\ AllWellFormed
    /\ Status(1) = 200
    /\ log[2].call = "_eventpush" /\ Status(2) \in {200, 409}
    /\ log[3].call = "_eventdatapush" /\ Status(3) = 401
    /\ log[4].call = "_login" /\ Status(4) = 200
    /\ log[5].call = "_eventdatapush" /\ Status(5) = 200

\* C3: after login and createEvent succeeded, pushEventData 401, re-login 200
\* and pushEventData 200 on the retry, event() returns result true with
\* comment "Sent event: <name>".
C3_PushRetryDone ==
    PushRetrySucceeded => Returned /\ ret.result /\ ret.comment = SentComment

(* ---------------- C4 ---------------- *)
\* C4: in one invocation createEvent is requested at most twice,
\* pushEventData at most twice and login at most three times, whatever the
\* server answers.
C4_SingleRetryBound ==
    /\ Calls("_eventpush") <= 2
    /\ Calls("_eventdatapush") <= 2
    /\ Calls("_login") <= 3
    /\ pc \in {"eventpush", "relogin_create"} => Calls("_eventpush") <= 1
    /\ pc \in {"eventdatapush", "relogin_push"} => Calls("_eventdatapush") <= 1

\* both steps were answered 401 on the first request and on the retry
C4_Witness ==
    /\ Returned
    /\ Len(log) = 7
    /\ \A i \in Indices("_eventpush") \cup Indices("_eventdatapush") : Status(i) = 401

AllSucceedAtOnce ==
    /\ Len(log) >= 3
    /\ \A i \in 1..3 : WellFormed(i)
    /\ Status(1) = 200
    /\ log[2].call = "_eventpush" /\ Status(2) = 200
    /\ log[3].call = "_eventdatapush" /\ Status(3) = 200

\* C6: when login, createEvent and pushEventData are each answered 200 on
\* the first request, event() sends exactly these three requests and returns
\* result true with comment "Sent event: <name>".
C6_HappyPath ==
    AllSucceedAtOnce =>
        /\ Len(log) = 3
        /\ Calls("_login") = 1 /\ Calls("_eventpush") = 1 /\ Calls("_eventdatapush") = 1
        /\ Returned
        /\ ret.result
        /\ ret.comment = SentComment
        /\ ret.name = args.event_name

C6_Witness == AllSucceedAtOnce /\ Returned /\ args.event_name = 2

(* ---------------- C7 ---------------- *)
\* C7: a createEvent answer 409 carrying an id is followed by no login and
\* no second createEvent; the next request is pushEventData on the data URL
\* of that id.
C7_ConflictIsSuccess ==
    \A i \in Indices("_eventpush") :
        WellFormed(i) /\ Status(i) = 409 =>
            /\ Len(log) = i =>
                 pc = "eventdatapush" /\ url = DataUrl(Some(log[i].resp.text.val))
            /\ Len(log) > i =>
                 /\ log[i + 1].call = "_eventdatapush"
                 /\ log[i + 1].url = DataUrl(Some(log[i].resp.text.val))

(* ---------------- C8 ---------------- *)
\* the first request of a step was answered with an error the code does not
\* retry on
FirstCreateFailed(i) ==
    /\ log[i].call = "_eventpush" /\ i = FirstOf("_eventpush")
    /\ Answered(i) /\ Status(i) \notin {200, 409, 401}
FirstPushFailed(i) ==
    /\ log[i].call = "_eventdatapush" /\ i = FirstOf("_eventdatapush")
    /\ Answered(i) /\ Status(i) \notin {200, 401}

\* C8: when the first createEvent (status not 200, 409, 401) or the first
\* pushEventData (status not 200, 401) is answered with such an error,
\* event() returns result false with that answer's body as comment and sends
\* nothing after it; after the createEvent error no pushEventData is sent.
C8_FirstCallError ==
    \A i \in 1..Len(log) :
        /\ FirstCreateFailed(i) \/ FirstPushFailed(i) =>
             /\ Returned
             /\ ~ret.result
             /\ ret.comment = Str(log[i].resp.text)
             /\ Len(log) = i
        /\ FirstCreateFailed(i) =>
             Calls("_eventdatapush") = 0 /\ Calls("_login") = 1 /\ Calls("_eventpush") = 1
        /\ FirstPushFailed(i) => Calls("_eventdatapush") = 1

C8_Witness ==
    /\ Returned
    /\ FirstPushFailed(Len(log))
    /\ Status(Len(log)) = 500
    /\ ret.comment = Str(PlainText(2))

(* ---------------- C9 ---------------- *)
\* C9: when every request is answered with a well-formed body, no exception
\* leaves event(), and every run in which the sequence did not succeed
\* returns result false with a comment.
C9_FailuresReported ==
    AllWellFormed =>
        /\ pc # "raised"
        /\ Returned /\ ~FullSuccess => ~ret.result /\ ret.comment # Str(EmptyStr)

(* ---------------- C10 ---------------- *)
LoginOkBefore(i) ==
    \E j \in 1..(i - 1) :
        /\ log[j].call = "_login" /\ Answered(j) /\ Status(j) = 200
        /\ log[i].HTTPAuthorization # None
        /\ log[j].resp.text = TokenJson(Get(log[i].HTTPAuthorization))

\* C10: in every invocation the first request is a login; a createEvent or
\* pushEventData request is sent only after a login of this invocation was
\* answered 200; every pushEventData comes after a createEvent and no
\* createEvent comes after a pushEventData.
C10_FreshLoginAndOrder ==
    /\ pc = "login" => log = <<>> /\ token = None
    /\ pc \notin {"idle", "login"} => Len(log) >= 1 /\ log[1].call = "_login"
    /\ \A i \in Indices("_eventpush") \cup Indices("_eventdatapush") : LoginOkBefore(i)
    /\ \A i \in Indices("_eventdatapush") : \E j \in Indices("_eventpush") : j < i
    /\ \A i \in Indices("_eventpush") : \A j \in Indices("_eventdatapush") : i < j

\* the second invocation has logged in again and sent its pushEventData
C10_Witness ==
    /\ invocations = 2
    /\ Calls("_login") >= 1
    /\ Calls("_eventdatapush") >= 1

(* ---------------- C11 ---------------- *)
\* C11: every pushEventData request, the first and the retried one, carries
\* the timestamp given to event(), and 0 when the argument was omitted.
C11_TimestampSent ==
    \A i \in Indices("_eventdatapush") :
        log[i].data.timestamp = IF args.event_timestamp = None THEN 0
                                ELSE Get(args.event_timestamp)

\* a retried pushEventData was sent for an invocation given timestamp 1
C11_Witness ==
    /\ Calls("_eventdatapush") = 2
    /\ args.event_timestamp = Some(1)
    /\ log[LastOf("_eventdatapush")].data.timestamp = 1

(* ---------------- C12 ---------------- *)
\* C12: the URL of every pushEventData request names an id that a
\* createEvent answer of this invocation with status 200 or 409 carried;
\* it never names None.
C12_PushHasCreatedId ==
    \A i \in Indices("_eventdatapush") :
        \E j \in Indices("_eventpush") :
            /\ j < i
            /\ WellFormed(j) /\ Status(j) \in {200, 409}
            /\ log[i].url = DataUrl(Some(log[j].resp.text.val))

(* ---------------- C13 ---------------- *)
\* request i is the retry of its step and was answered with an error other
\* than 401
RetryFailed(i) ==
    /\ Answered(i)
    /\ \/ /\ log[i].call = "_eventpush" /\ Calls("_eventpush") = 2
          /\ i = LastOf("_eventpush") /\ Status(i) \notin {200, 409, 401}
       \/ /\ log[i].call = "_eventdatapush" /\ Calls("_eventdatapush") = 2
          /\ i = LastOf("_eventdatapush") /\ Status(i) \notin {200, 401}

\* C13: when the retried createEvent or pushEventData is answered with an
\* error other than 401, event() returns result false with the body of the
\* retried answer as comment, and that request is the last of the invocation.
C13_RetryError ==
    \A i \in 1..Len(log) :
        RetryFailed(i) =>
            /\ Returned
            /\ ~ret.result
            /\ ret.comment = Str(log[i].resp.text)
            /\ Len(log) = i

\* the retried pushEventData got 500 with a body other than the first 401's
C13_Witness ==
    /\ Returned
    /\ RetryFailed(Len(log))
    /\ log[Len(log)].call = "_eventdatapush"
    /\ Status(Len(log)) = 500
    /\ log[FirstOf("_eventdatapush")].resp.text # log[Len(log)].resp.text

(* ---------------- C14 ---------------- *)
\* the logins before request i that returned a token
LoginsBefore(i) ==
    {j \in 1..(i - 1) : log[j].call = "_login" /\ WellFormed(j) /\ Status(j) = 200}
LastLoginBefore(i) ==
    CHOOSE j \in LoginsBefore(i) : \A k \in LoginsBefore(i) : k <= j

\* C14: every createEvent and pushEventData request carries the token that
\* the most recent successful login of the same invocation returned.
C14_LatestToken ==
    \A i \in Indices("_eventpush") \cup Indices("_eventdatapush") :
        /\ LoginsBefore(i) # {}
        /\ log[i].HTTPAuthorization = Some(log[LastLoginBefore(i)].resp.text.val)

\* the re-login of the create step returned another token than the first
\* login, and the retried createEvent and the pushEventData were sent
C14_Witness ==
    /\ Len(log) >= 5
    /\ log[3].call = "_login"
    /\ log[1].resp.text # log[3].resp.text
    /\ log[4].call = "_eventpush"
    /\ log[5].call = "_eventdatapush"

(* ---------------- C15 ---------------- *)
\* request i is a re-login (a login after the first) answered with a status
\* other than 200
ReLoginFailed(i) ==
    /\ i > 1 /\ log[i].call = "_login"
    /\ Answered(i) /\ Status(i) # 200

Running == pc \notin {"idle", "returned", "raised"}

\* C16: every invocation ends; it sends at most 7 requests; and it ends by
\* returning its Result record unless a request got no answer or an answer
\* the client cannot read.
C16_Terminates ==
    /\ [](Len(log) <= 7)
    /\ [](pc = "raised" => ~AllWellFormed)
    /\ Running ~> (pc = "returned" \/ pc = "raised")

\* an invocation that returned after 7 requests, the last answered 500
C16_Witness ==
    /\ pc = "returned"
    /\ Len(log) = 7
    /\ AllWellFormed
    /\ Status(7) = 500
====
